---- MODULE Spec2Model ----
(***************************************************************************)
(* RentShield evidence engine: EvidencePipeline.analyze_evidence, the      *)
(* VisionService it downloads and analyses images with, and the            *)
(* OllamaLLMService.query retry loop used for multimodal reasoning.        *)
(* The other entry points of the engine are calls of their own, made in    *)
(* place of analyze_evidence: the _parse_json_response of both services,   *)
(* the EvidenceValidator methods extract_exif,                             *)
(* calculate_authenticity_score, get_trust_level, detect_tampering and     *)
(* validate_evidence, and the EvidencePipeline methods                     *)
(* _build_vision_analysis, _build_multimodal_verdict and                   *)
(* _calculate_final_score.                                                 *)
(* SpecConcurrent runs two calls of analyze_evidence on one pipeline,      *)
(* interleaved at their accesses to the temp directory.                    *)
(*                                                                         *)
(* Python values are encoded uniformly:                                    *)
(*   - a JSON value is a record [t, n, s]: t is the Python type, n the     *)
(*     integer content (int, bool as 0/1, float truncated toward zero,     *)
(*     list length), s the string content (str) or the element kind of a   *)
(*     list ("strs": every element is a str; "mixed": some element is not);*)
(*   - a dict is a function over AllKeys whose absent keys hold JMissing;  *)
(*   - the value json.loads returns is [kind, d]: kind "obj" with its dict,*)
(*     or the kind of a non-object JSON value with the empty dict;         *)
(*   - a response text is a sequence of tokens (prose, whitespace, code    *)
(*     fences, serialized JSON documents, brace-delimited non-JSON).       *)
(***************************************************************************)
EXTENDS Integers, Sequences, FiniteSets, TLC

\* ------------------------------------------------------------------ bounds
\* configured retry maxima explored: settings.MAX_RETRIES in 0..MaxRetriesBound
MaxRetriesBound == 4
\* configured base delays explored: settings.RETRY_DELAY in 1..MaxRetryDelay
MaxRetryDelay == 2
\* configured size ceiling settings.MAX_FILE_SIZE, counted in chunk units
MAX_FILE_SIZE == 2
\* largest number of units one streamed chunk carries
MaxChunk == 2
\* longest response text enumerated token by token
MaxTextLen == 3
\* number of file names the temp directory can hold at once
MaxNames == 2

\* ------------------------------------------------------------ JSON values
JMissing == [t |-> "missing", n |-> 0, s |-> ""]
JNull == [t |-> "null", n |-> 0, s |-> ""]
JInt(i) == [t |-> "int", n |-> i, s |-> ""]
JBool(b) == [t |-> "bool", n |-> IF b THEN 1 ELSE 0, s |-> ""]
\* a finite float with a fractional part, truncating to i
JFloat(i) == [t |-> "float", n |-> i, s |-> ""]
JNaN == [t |-> "nan", n |-> 0, s |-> ""]
JInf == [t |-> "inf", n |-> 0, s |-> ""]
JStr(x) == [t |-> "str", n |-> 0, s |-> x]
JList(len, elems) == [t |-> "list", n |-> len, s |-> elems]
JObj == [t |-> "obj", n |-> 0, s |-> ""]

VisionKeys ==
    {"scene_summary", "detected_objects", "damage_detected", "safety_hazards",
     "cleanliness_level", "indoor_outdoor", "confidence"}

VerdictKeys ==
    {"image_supports_claim", "consistency_score", "evidence_strength",
     "detected_inconsistencies", "possible_fraud_signals", "reasoning"}

SentinelKeys == {"parse_error", "raw_response", "warning"}

AllKeys == VisionKeys \cup VerdictKeys \cup SentinelKeys

\* a dict holding exactly the items of the record f
Dict(f) == [k \in AllKeys |-> IF k \in DOMAIN f THEN f[k] ELSE JMissing]

EmptyDict == [k \in AllKeys |-> JMissing]

\* dict.get(key, default)
Get(d, key, default) == IF d[key].t = "missing" THEN default ELSE d[key]

Loaded(kind, d) == [kind |-> kind, d |-> d]

\* --------------------------------------------------------- response texts
NoValue == Loaded("none", EmptyDict)

\* prose without braces or backticks, not JSON by itself
TProse == [k |-> "P", v |-> NoValue]
\* whitespace
TWs == [k |-> "W", v |-> NoValue]
\* the opening of a labelled fence: ```json
TFenceJson == [k |-> "FJ", v |-> NoValue]
\* a bare fence: ```
TFence == [k |-> "F", v |-> NoValue]
\* the serialization of the JSON value v
TJson(v) == [k |-> "J", v |-> v]
\* brace-delimited text that is not JSON, such as {scene: dirty}
TBroken == [k |-> "B", v |-> NoValue]

IsFence(tok) == tok.k \in {"F", "FJ"}

HasBrace(tok) == tok.k = "B" \/ (tok.k = "J" /\ tok.v.kind = "obj")

NotLoaded == [ok |-> FALSE, v |-> NoValue]

\* json.loads(text): one JSON document, whitespace allowed around it
json_loads(text) ==
    LET solid == {i \in 1..Len(text) : text[i].k # "W"}
    IN  IF Cardinality(solid) = 1
        THEN LET i == CHOOSE i \in solid : TRUE
             IN  IF text[i].k = "J" THEN [ok |-> TRUE, v |-> text[i].v]
                 ELSE NotLoaded
        ELSE NotLoaded

\* str.strip(): drop leading and trailing whitespace
RECURSIVE strip(_)
strip(text) ==
    IF text = <<>> THEN text
    ELSE IF Head(text).k = "W" THEN strip(Tail(text))
    ELSE IF text[Len(text)].k = "W" THEN strip(SubSeq(text, 1, Len(text) - 1))
    ELSE text

\* index of the first token at or after p that satisfies the test, 0 if none
FirstFence(text, p) ==
    LET c == {i \in p..Len(text) : IsFence(text[i])}
    IN  IF c = {} THEN 0 ELSE CHOOSE i \in c : \A j \in c : i <= j

FirstJsonFence(text, p) ==
    LET c == {i \in p..Len(text) : text[i].k = "FJ"}
    IN  IF c = {} THEN 0 ELSE CHOOSE i \in c : \A j \in c : i <= j

\* re.search(r"\{[\s\S]*\}", text): from the first brace to the last one
GreedyBraces(text) ==
    LET c == {i \in 1..Len(text) : HasBrace(text[i])}
    IN  IF c = {} THEN [found |-> FALSE, m |-> <<>>]
        ELSE LET lo == CHOOSE i \in c : \A j \in c : i <= j
                 hi == CHOOSE i \in c : \A j \in c : i >= j
             IN  [found |-> TRUE, m |-> SubSeq(text, lo, hi)]

\* the default structure VisionService returns when nothing parses
VisionDefault(text) ==
    Dict([scene_summary |-> JStr(IF text = <<>> THEN "Unable to analyze image"
                                 ELSE "raw text"),
          detected_objects |-> JList(0, "strs"),
          damage_detected |-> JList(0, "strs"),
          safety_hazards |-> JList(0, "strs"),
          cleanliness_level |-> JStr("unclear"),
          indoor_outdoor |-> JStr("unclear"),
          confidence |-> JInt(30)])

\* VisionService._parse_json_response
VisionParseJsonResponse(text) ==
    LET direct == json_loads(text)
        open == FirstFence(text, 1)
        close == IF open = 0 THEN 0 ELSE FirstFence(text, open + 1)
        \* r"```(?:json)?\s*([\s\S]*?)\s*```": the first fenced block
        fenced == IF close = 0 THEN NotLoaded
                  ELSE json_loads(SubSeq(text, open + 1, close - 1))
        braces == GreedyBraces(text)
        bare == IF braces.found THEN json_loads(braces.m) ELSE NotLoaded
    IN  IF direct.ok THEN direct.v
        ELSE IF fenced.ok THEN fenced.v
        ELSE IF bare.ok THEN bare.v
        ELSE Loaded("obj", VisionDefault(text))

\* re.findall of a fence pattern, tried match by match from position p:
\* the value of the first match that json.loads accepts
RECURSIVE FencedLoad(_, _, _)
FencedLoad(text, p, labelled) ==
    LET open == IF labelled THEN FirstJsonFence(text, p) ELSE FirstFence(text, p)
        close == IF open = 0 THEN 0 ELSE FirstFence(text, open + 1)
    IN  IF close = 0 THEN NotLoaded
        ELSE LET \* r"```\s*(...)" on a labelled fence captures the label too
                 got == IF ~labelled /\ text[open].k = "FJ" THEN NotLoaded
                        ELSE json_loads(SubSeq(text, open + 1, close - 1))
             IN  IF got.ok THEN got ELSE FencedLoad(text, close + 1, labelled)

\* the sentinel OllamaLLMService returns when nothing parses
LLMSentinel ==
    Dict([parse_error |-> JBool(TRUE),
          raw_response |-> JStr("raw text"),
          warning |-> JStr("Could not parse JSON from LLM response")])

\* the text the raw_response item of the sentinel holds: "raw_response": text,
\* where text = response_text.strip()
LLMRawResponse(response_text) == strip(response_text)

\* a parser without the two fence patterns
LLMParseBracesOnly(response_text) ==
    LET text == strip(response_text)
        direct == json_loads(text)
        braces == GreedyBraces(text)
        bare == IF braces.found THEN json_loads(braces.m) ELSE NotLoaded
    IN  IF direct.ok THEN direct.v
        ELSE IF bare.ok THEN bare.v
        ELSE Loaded("obj", LLMSentinel)

\* OllamaLLMService._parse_json_response
LLMParseJsonResponse(response_text) ==
    LET text == strip(response_text)
        direct == json_loads(text)
        labelled == FencedLoad(text, 1, TRUE)
        anyfence == FencedLoad(text, 1, FALSE)
        braces == GreedyBraces(text)
        bare == IF braces.found THEN json_loads(braces.m) ELSE NotLoaded
    IN  IF direct.ok THEN direct.v
        ELSE IF labelled.ok THEN labelled.v
        ELSE IF anyfence.ok THEN anyfence.v
        ELSE IF bare.ok THEN bare.v
        ELSE Loaded("obj", LLMSentinel)

\* ------------------------------------------------------- Python built-ins
\* str.lower() on the strings the model uses
PyLower(x) ==
    CASE x = "DIRTY" -> "dirty"
      [] x = "Indoor" -> "indoor"
      [] x = "True" -> "true"
      [] x = "YES" -> "yes"
      [] x = "Adobe Photoshop CC 2019" -> "adobe photoshop cc 2019"
      [] x = "GIMP 2.10" -> "gimp 2.10"
      [] x = ".PNG" -> ".png"
      [] OTHER -> x

NumericStrings == {"85", "150", "-10", "1"}

\* int(x) for a str x: the strings that denote an integer
PyIntOfStr(x) ==
    CASE x = "85" -> 85
      [] x = "150" -> 150
      [] x = "-10" -> -10
      [] x = "1" -> 1
      [] OTHER -> 0

\* min(100, x): the lower bound forgotten
ClampUpperOnly(x) == IF x > 100 THEN 100 ELSE x

\* max(0, min(100, x))
Clamp(x) == IF x < 0 THEN 0 ELSE IF x > 100 THEN 100 ELSE x

\* ----------------------------------------------------------- data models
CleanlinessLevelEnum == {"clean", "average", "dirty", "unsanitary"}

LocationTypeEnum == {"indoor", "outdoor", "unclear"}

TrustLevelEnum == {"HIGH TRUST", "MEDIUM TRUST", "LOW TRUST", "UNTRUSTED"}

\* Optional[str] and Optional[float] fields: the value None
NoneStr == "<None>"
NoneNum == 1000

EXIFData(dt, make, model, lat, lon, sw, hash, dims, size) ==
    [datetime_original |-> dt, device_make |-> make, device_model |-> model,
     gps_latitude |-> lat, gps_longitude |-> lon, software |-> sw,
     file_hash |-> hash, dimensions |-> dims, file_size |-> size]

\* EXIFData(): every field None
EmptyEXIFData ==
    EXIFData(NoneStr, NoneStr, NoneStr, NoneNum, NoneNum, NoneStr,
             NoneStr, NoneStr, NoneNum)

StrFields ==
    {"datetime_original", "device_make", "device_model", "software",
     "file_hash", "dimensions"}
NumFields == {"gps_latitude", "gps_longitude", "file_size"}

\* the fields of exif_data.model_dump() that are not None
NonNullFields(exif_data) ==
    {k \in StrFields : exif_data[k] # NoneStr}
        \cup {k \in NumFields : exif_data[k] # NoneNum}

\* what _perform_multimodal_reasoning hands to llm_service.query: the
\* prompt with json.dumps(llava_result) and json.dumps(exif_dict) in it,
\* and no image
MultimodalPrompt(llava_result, exif_data) ==
    [llava_json |-> llava_result,
     exif_json |-> [k \in NonNullFields(exif_data) |-> exif_data[k]],
     images |-> 0]

\* Python truthiness of an Optional[str] / Optional[float]
Truthy(x) == x \notin {NoneStr, ""}
TruthyNum(x) == x \notin {NoneNum, 0}

\* the items of a list[str] field
ListItems(v) == [i \in 1..v.n |-> "item"]

\* pydantic validation of a list[str] field and of a str field
ValidStrList(v) == v.t = "list" /\ v.s = "strs"
ValidStr(v) == v.t = "str"

NoVisionAnalysis ==
    [scene_summary |-> "", detected_objects |-> <<>>, damage_detected |-> <<>>,
     safety_hazards |-> <<>>, cleanliness_level |-> "average",
     indoor_outdoor |-> "unclear", confidence |-> 0]

NoVerdict ==
    [image_supports_claim |-> FALSE, consistency_score |-> 0,
     evidence_strength |-> 0, detected_inconsistencies |-> <<>>,
     possible_fraud_signals |-> <<>>, reasoning |-> ""]

\* -------------------------------------------------------- EvidenceValidator
\* EvidenceValidator.calculate_authenticity_score
calculate_authenticity_score(exif_data) ==
    LET has_exif == \/ Truthy(exif_data.datetime_original)
                    \/ Truthy(exif_data.device_make)
                    \/ Truthy(exif_data.device_model)
                    \/ TruthyNum(exif_data.gps_latitude)
                    \/ Truthy(exif_data.software)
        score == (IF has_exif THEN 40 ELSE 0)
                 + (IF Truthy(exif_data.datetime_original) THEN 30 ELSE 0)
                 + (IF Truthy(exif_data.device_make)
                       \/ Truthy(exif_data.device_model) THEN 20 ELSE 0)
                 + (IF exif_data.gps_latitude # NoneNum
                       /\ exif_data.gps_longitude # NoneNum THEN 10 ELSE 0)
    IN  IF score < 100 THEN score ELSE 100

\* the tiers with their lower boundaries excluded
get_trust_level_exclusive(authenticity_score) ==
    IF authenticity_score > 80 THEN "HIGH TRUST"
    ELSE IF authenticity_score > 50 THEN "MEDIUM TRUST"
    ELSE IF authenticity_score > 20 THEN "LOW TRUST"
    ELSE "UNTRUSTED"

\* EvidenceValidator.get_trust_level
get_trust_level(authenticity_score) ==
    IF authenticity_score >= 80 THEN "HIGH TRUST"
    ELSE IF authenticity_score >= 50 THEN "MEDIUM TRUST"
    ELSE IF authenticity_score >= 20 THEN "LOW TRUST"
    ELSE "UNTRUSTED"

\* EDITING_SOFTWARE
EDITING_SOFTWARE ==
    {"photoshop", "gimp", "lightroom", "capture one", "affinity", "pixelmator",
     "snapseed", "vsco", "afterlight"}

\* editor in software_lower, on the strings the model uses
PyIn(editor, software_lower) ==
    <<editor, software_lower>> \in {<<"photoshop", "adobe photoshop cc 2019">>,
                                    <<"gimp", "gimp 2.10">>}

\* the timestamp check of detect_tampering: what
\* datetime.fromisoformat(...) > datetime.now() does with a truthy
\* datetime_original. The wall clock stands between 2024 and 2999; a
\* timestamp with a UTC offset parses to an aware datetime, and comparing it
\* with the naive datetime.now() raises TypeError.
LaterThanNow(datetime_original) ==
    CASE datetime_original = "2024:01:15 14:30:00" -> "no"
      [] datetime_original = "2999:01:01 00:00:00" -> "yes"
      [] datetime_original = "2024:01:15 14:30:00+05:30" -> "TypeError"
      [] OTHER -> "ValueError"

\* probabilities are counted in hundredths
TamperAnalysis(probability, indicators, conclusion) ==
    [tamper_probability |-> probability, indicators |-> indicators,
     conclusion |-> conclusion]

NoTamperAnalysis == TamperAnalysis(0, <<>>, "")

\* an except clause that lets InvalidImageError through
TamperExceptReraiseInvalid(exc) ==
    IF exc = "InvalidImageError" THEN exc ELSE "none"

\* detect_tampering, its except clause: the exception that escapes it when
\* exc is raised inside its try block, "none" when it is caught
TamperExcept(exc) == "none"

\* a test that looks at the device and the position only
HasMeaningfulExifNoTimestamp(exif_data) ==
    \/ Truthy(exif_data.device_make)
    \/ TruthyNum(exif_data.gps_latitude)

\* detect_tampering: has_meaningful_exif = any([datetime_original,
\* device_make, gps_latitude])
has_meaningful_exif(exif_data) ==
    \/ Truthy(exif_data.datetime_original)
    \/ Truthy(exif_data.device_make)
    \/ TruthyNum(exif_data.gps_latitude)

\* EvidenceValidator.detect_tampering: r is what extract_exif does with the
\* file at image_path
detect_tampering(r) ==
    LET e == r.exif
        edited == /\ Truthy(e.software)
                  /\ \E editor \in EDITING_SOFTWARE :
                        PyIn(editor, PyLower(e.software))
        later == IF Truthy(e.datetime_original)
                 THEN LaterThanNow(e.datetime_original) ELSE "no"
        exc == IF r.exc # "none" THEN r.exc
               ELSE IF later = "TypeError" THEN "TypeError"
               ELSE "none"
        sum == (IF ~has_meaningful_exif(e) THEN 30 ELSE 0)
               + (IF edited THEN 40 ELSE 0)
               + (IF later = "yes" THEN 50 ELSE 0)
        tamper_probability == IF sum < 100 THEN sum ELSE 100
        indicators ==
            (IF ~has_meaningful_exif(e)
             THEN <<"Missing or stripped EXIF metadata">> ELSE <<>>)
            \o (IF edited
                THEN <<"Editing software detected: " \o e.software>> ELSE <<>>)
            \o (IF later = "yes"
                THEN <<"Image timestamp is in the future">> ELSE <<>>)
        conclusion ==
            IF tamper_probability < 20 THEN "Low risk of tampering detected"
            ELSE IF tamper_probability < 50
                 THEN "Moderate tampering indicators found"
            ELSE "High probability of image manipulation"
    IN  IF exc = "none"
        THEN [exc |-> "none",
              analysis |-> TamperAnalysis(
                  tamper_probability,
                  IF indicators = <<>>
                  THEN <<"No tampering indicators detected">> ELSE indicators,
                  conclusion)]
        ELSE IF TamperExcept(exc) = "none"
        THEN [exc |-> "none",
              analysis |-> TamperAnalysis(
                  50, <<"Could not complete tampering analysis">>,
                  "Tampering analysis inconclusive due to processing error")]
        ELSE [exc |-> TamperExcept(exc), analysis |-> NoTamperAnalysis]

\* the alignment analysis run for every claim text, with or without a service
RunsAlignmentClaimOnly(text, service) == Truthy(text)

\* validate_evidence: if claim_text and llm_service
RunsAlignment(text, service) == Truthy(text) /\ service # "None"

\* the trust level left as it was before the penalty
PenalizedTrustStale(trust, score) == trust

\* validate_evidence: the trust level after the tamper penalty
PenalizedTrust(trust, score) == get_trust_level(score)

NoValidation ==
    [authenticity_score |-> 0, trust_level |-> "UNTRUSTED",
     exif_data |-> EmptyEXIFData, tamper_analysis |-> NoTamperAnalysis,
     alignment_analysis |-> "None"]

\* EvidenceValidator.validate_evidence: r is what extract_exif does with the
\* file at image_path, on both of its runs. analyze_evidence_alignment
\* catches what the service raises and always returns an AlignmentAnalysis.
validate_evidence(r, text, service) ==
    LET score == calculate_authenticity_score(r.exif)
        trust == get_trust_level(score)
        tamper == detect_tampering(r)
        penalized == tamper.analysis.tamper_probability > 50
        adjusted == IF penalized
                    THEN (IF score - 30 > 0 THEN score - 30 ELSE 0) ELSE score
    IN  IF r.exc # "none" THEN [exc |-> r.exc, v |-> NoValidation]
        ELSE IF tamper.exc # "none" THEN [exc |-> tamper.exc, v |-> NoValidation]
        ELSE [exc |-> "none",
              v |-> [authenticity_score |-> adjusted,
                     trust_level |-> IF penalized
                                     THEN PenalizedTrust(trust, adjusted)
                                     ELSE trust,
                     exif_data |-> r.exif,
                     tamper_analysis |-> tamper.analysis,
                     alignment_analysis |->
                         IF RunsAlignment(text, service)
                         THEN "AlignmentAnalysis" ELSE "None"]]

\* --------------------------------------------------------- EvidencePipeline
\* the confidence parsing of _build_vision_analysis, before the clamp:
\* exc is the exception int() lets escape, "none" if there is none
ParseConfidence(v) ==
    CASE v.t \in {"int", "bool", "float"} -> [exc |-> "none", val |-> v.n]
      [] v.t = "inf" -> [exc |-> "OverflowError", val |-> 0]
      [] v.t = "str" /\ v.s \in NumericStrings ->
            [exc |-> "none", val |-> PyIntOfStr(v.s)]
      [] OTHER -> [exc |-> "none", val |-> 50]

\* EvidencePipeline._build_vision_analysis
build_vision_analysis(llava_result) ==
    LET d == llava_result.d
        cleanliness_raw == Get(d, "cleanliness_level", JStr("average"))
        location_raw == Get(d, "indoor_outdoor", JStr("unclear"))
        conf == ParseConfidence(Get(d, "confidence", JInt(50)))
        summary == Get(d, "scene_summary", JStr("Unable to analyze image"))
        objects == Get(d, "detected_objects", JList(0, "strs"))
        damage == Get(d, "damage_detected", JList(0, "strs"))
        hazards == Get(d, "safety_hazards", JList(0, "strs"))
        exc == IF llava_result.kind # "obj" THEN "AttributeError"
               ELSE IF cleanliness_raw.t # "str" THEN "AttributeError"
               ELSE IF location_raw.t # "str" THEN "AttributeError"
               ELSE IF conf.exc # "none" THEN conf.exc
               ELSE IF ~(/\ ValidStr(summary) /\ ValidStrList(objects)
                         /\ ValidStrList(damage) /\ ValidStrList(hazards))
                    THEN "ValidationError"
               ELSE "none"
    IN  IF exc # "none" THEN [exc |-> exc, va |-> NoVisionAnalysis]
        ELSE [exc |-> "none",
              va |-> [scene_summary |-> summary.s,
                      detected_objects |-> ListItems(objects),
                      damage_detected |-> ListItems(damage),
                      safety_hazards |-> ListItems(hazards),
                      cleanliness_level |->
                          IF PyLower(cleanliness_raw.s) \in CleanlinessLevelEnum
                          THEN PyLower(cleanliness_raw.s) ELSE "average",
                      indoor_outdoor |->
                          IF PyLower(location_raw.s) \in LocationTypeEnum
                          THEN PyLower(location_raw.s) ELSE "unclear",
                      confidence |-> Clamp(conf.val)]]

\* parse_score, nested in _build_multimodal_verdict
parse_score(v) ==
    CASE v.t \in {"int", "bool", "float"} -> [exc |-> "none", val |-> Clamp(v.n)]
      [] v.t = "nan" -> [exc |-> "ValueError", val |-> 0]
      [] v.t = "inf" -> [exc |-> "OverflowError", val |-> 0]
      [] v.t = "str" /\ v.s \in NumericStrings ->
            [exc |-> "none", val |-> Clamp(PyIntOfStr(v.s))]
      [] OTHER -> [exc |-> "none", val |-> 50]

\* the boolean parsing of _build_multimodal_verdict
ParseSupportsClaim(v) ==
    CASE v.t = "bool" -> v.n = 1
      [] v.t = "str" -> PyLower(v.s) \in {"true", "yes", "1"}
      [] v.t = "int" -> v.n = 1
      [] OTHER -> FALSE

\* EvidencePipeline._build_multimodal_verdict
build_multimodal_verdict(llm_result) ==
    LET d == llm_result.d
        consistency == parse_score(Get(d, "consistency_score", JInt(50)))
        strength == parse_score(Get(d, "evidence_strength", JInt(50)))
        inconsistencies == Get(d, "detected_inconsistencies", JList(0, "strs"))
        fraud == Get(d, "possible_fraud_signals", JList(0, "strs"))
        reasoning == Get(d, "reasoning", JStr("No reasoning provided"))
        exc == IF llm_result.kind # "obj" THEN "AttributeError"
               ELSE IF consistency.exc # "none" THEN consistency.exc
               ELSE IF strength.exc # "none" THEN strength.exc
               ELSE IF ~(/\ ValidStrList(inconsistencies) /\ ValidStrList(fraud)
                         /\ ValidStr(reasoning))
                    THEN "ValidationError"
               ELSE "none"
    IN  IF exc # "none" THEN [exc |-> exc, verdict |-> NoVerdict]
        ELSE [exc |-> "none",
              verdict |-> [image_supports_claim |->
                               ParseSupportsClaim(
                                   Get(d, "image_supports_claim", JBool(FALSE))),
                           consistency_score |-> consistency.val,
                           evidence_strength |-> strength.val,
                           detected_inconsistencies |-> ListItems(inconsistencies),
                           possible_fraud_signals |-> ListItems(fraud),
                           reasoning |-> reasoning.s]]

\* the verdict _perform_multimodal_reasoning returns from its except branch
NeutralVerdict ==
    [image_supports_claim |-> FALSE, consistency_score |-> 50,
     evidence_strength |-> 50,
     detected_inconsistencies |-> <<"Unable to perform full analysis">>,
     possible_fraud_signals |-> <<>>,
     reasoning |-> "Analysis incomplete"]

\* int(score) without round(): the fraction dropped
calculate_final_score_truncated(a, v, c) ==
    {Clamp((3 * a + 3 * v + 4 * c) \div 10)}

\* EvidencePipeline._calculate_final_score. The weighted sum is a binary
\* float: when 0.3a + 0.3v + 0.4c is exactly halfway between two integers
\* the float lands on or to either side of the half, and round() (half to
\* even) may give either neighbour, so both are possible results there.
calculate_final_score(exif_authenticity, llava_confidence, consistency_score) ==
    LET tenths == 3 * exif_authenticity + 3 * llava_confidence
                  + 4 * consistency_score
        q == tenths \div 10
        r == tenths % 10
    IN  IF r < 5 THEN {Clamp(q)}
        ELSE IF r > 5 THEN {Clamp(q + 1)}
        ELSE {Clamp(q), Clamp(q + 1)}

\* the reasoning written before the vision analysis
FollowingStepReasonFirst(step) ==
    CASE step = "exif" -> "reason"
      [] step = "query" -> "vision"
      [] step = "vision" -> "aggregate"

\* EvidencePipeline.analyze_evidence, the statements of its try block: the
\* step that follows a step that completed (steps 2, 3 and 4)
FollowingStep(step) ==
    CASE step = "exif" -> "vision"
      [] step = "vision" -> "reason"
      [] step = "query" -> "aggregate"

\* every exception wrapped, InvalidImageError included
ExceptClausesWrapAll(exc) == "AnalysisError"

\* the LLM errors re-raised like InvalidImageError
ExceptClausesReraiseLLM(exc) ==
    IF exc \in {"InvalidImageError", "LLMTimeoutError", "LLMConnectionError"}
    THEN exc ELSE "AnalysisError"

\* EvidencePipeline.analyze_evidence, the except clauses: an exception
\* raised inside the try block becomes the exception that propagates
ExceptClauses(exc) ==
    IF exc = "InvalidImageError" THEN "InvalidImageError" ELSE "AnalysisError"

\* EvidencePipeline._extract_exif_safe: r is what extract_exif did
extract_exif_safe(r) == IF r.exc # "none" THEN EmptyEXIFData ELSE r.exif

\* an except clause that catches timeouts only
ReasoningExceptTimeoutOnly(exc) == IF exc = "LLMTimeoutError" THEN "none" ELSE exc

\* EvidencePipeline._perform_multimodal_reasoning, its except clause: the
\* exception that escapes it when exc is raised by the query or by
\* _build_multimodal_verdict, "none" when it is caught
ReasoningExcept(exc) == "none"

\* ------------------------------------------------------- OllamaLLMService
RECURSIVE Pow2(_)
Pow2(k) == IF k = 0 THEN 1 ELSE 2 * Pow2(k - 1)

\* a linear backoff
BackoffDelayLinear(delay, k) == delay * (k + 1)

\* the backoff of query: delay = self.retry_delay * (2 ** attempt)
BackoffDelay(delay, k) == delay * Pow2(k)

\* the guard of the backoff: if attempt < self.max_retries - 1
SleepsAfter(k, retries) == k < retries - 1

\* what one attempt of query does with what requests.post brought:
\* a failure is recorded in last_error, a non-200 status raises at once
QueryOutcomes == {"timeout", "connection", "unexpected", "status", "ok"}

AttemptError(outcome) ==
    CASE outcome = "timeout" -> "LLMTimeoutError"
      [] outcome = "connection" -> "LLMConnectionError"
      [] OTHER -> "LLMConnectionError"

\* a non-200 status retried like any other failure
RaisesAtOnceNever(outcome) == FALSE

\* except LLMConnectionError: raise
RaisesAtOnce(outcome) == outcome = "status"

\* every exhaustion reported as a connection error
ExhaustedErrorConnection(err) == "LLMConnectionError"

\* the raise after the loop: last_error, or LLMConnectionError if None
ExhaustedError(err) ==
    IF err = "LLMTimeoutError" THEN "LLMTimeoutError" ELSE "LLMConnectionError"

NoExit == [status |-> "none", exc |-> "none", v |-> NoValue]

\* ------------------------------------------------------------------ inputs
\* text files allowed too
AllowedExtensionsWithText == {".jpg", ".jpeg", ".png", ".txt"}

ALLOWED_EXTENSIONS == {".jpg", ".jpeg", ".png"}

\* a file at image_path: whether it exists, its size in chunk units, the
\* suffix of its name, whether Pillow decodes it, whether a step after the
\* validation fails on it (hashing, reopening, reading the tags, building
\* the record), whether it holds an EXIF block, and the tags of that block
ImageFile(exists, size, suffix, decodes, fails, has_block, tags) ==
    [exists |-> exists, size |-> size, suffix |-> suffix, decodes |-> decodes,
     fails |-> fails, has_block |-> has_block, tags |-> tags]

\* EvidenceValidator.validate_image_file: the message of the
\* InvalidImageError it raises, "none" if it returns
validate_image_file(f) ==
    IF ~f.exists THEN "Image file does not exist"
    ELSE IF f.size > MAX_FILE_SIZE THEN "Image file too large"
    ELSE IF PyLower(f.suffix) \notin ALLOWED_EXTENSIONS THEN "Invalid file type"
    ELSE IF ~f.decodes THEN "File is not a valid image"
    ELSE "none"

\* an except clause that wraps InvalidImageError like any other exception
ExtractExceptWrapAll(exc) == "ExifExtractionError"

\* extract_exif, its except clauses: an exception raised inside its try
\* block becomes the exception that propagates
ExtractExcept(exc) ==
    IF exc = "InvalidImageError" THEN "InvalidImageError"
    ELSE "ExifExtractionError"

\* EvidenceValidator.extract_exif
extract_exif(f) ==
    LET invalid == validate_image_file(f)
        exc == IF invalid # "none" THEN "InvalidImageError"
               ELSE IF f.fails THEN "OSError"
               ELSE "none"
    IN  IF exc # "none"
        THEN [exc |-> ExtractExcept(exc),
              message |-> IF ExtractExcept(exc) = "InvalidImageError"
                          THEN invalid ELSE "Failed to extract EXIF metadata",
              exif |-> EmptyEXIFData]
        ELSE [exc |-> "none",
              message |-> "",
              exif |-> IF ~f.has_block
                       THEN EXIFData(NoneStr, NoneStr, NoneStr, NoneNum, NoneNum,
                                     NoneStr, "sha256", "50x50", f.size)
                       ELSE EXIFData(f.tags.datetime_original,
                                     f.tags.device_make, f.tags.device_model,
                                     f.tags.gps_latitude, f.tags.gps_longitude,
                                     f.tags.software, "sha256", "50x50", f.size)]

\* Path(urlparse(url).path.lower()).suffix of the URLs tried
UrlSuffixes == {"", ".png", ".txt"}

\* what requests.get brings back: a RequestException (connection failure,
\* timeout, HTTP error status), or a response whose Content-Length header is
\* absent, within the ceiling, over it, or not a number
GetOutcomes == {"RequestException", "absent", "within", "over", "malformed"}

NoExifBlock ==
    EXIFData(NoneStr, NoneStr, NoneStr, NoneNum, NoneNum, NoneStr,
             "sha256", "50x50", 1)
DatetimeOnly ==
    EXIFData("2024:01:15 14:30:00", NoneStr, NoneStr, NoneNum, NoneNum, NoneStr,
             "sha256", "50x50", 1)
FullExif ==
    EXIFData("2024:01:15 14:30:00", "Apple", "iPhone 13", 12, 77, "17.2",
             "sha256", "50x50", 2)

\* what EvidenceValidator.extract_exif does with the downloaded file
ExifOutcomes ==
    {[exc |-> "none", exif |-> e] : e \in {NoExifBlock, DatetimeOnly, FullExif}}
    \cup {[exc |-> x, exif |-> EmptyEXIFData] :
              x \in {"InvalidImageError", "ExifExtractionError"}}

Scene(cleanliness, location, confidence) ==
    Loaded("obj", Dict([scene_summary |-> JStr("Water damaged ceiling."),
                        detected_objects |-> JList(2, "strs"),
                        damage_detected |-> JList(1, "strs"),
                        safety_hazards |-> JList(0, "strs"),
                        cleanliness_level |-> cleanliness,
                        indoor_outdoor |-> location,
                        confidence |-> confidence]))

\* texts the vision model answers with
VisionTexts ==
    { <<TJson(Scene(JStr("dirty"), JStr("indoor"), JInt(82)))>>,
      <<TProse, TWs, TFenceJson, TWs,
        TJson(Scene(JStr("DIRTY"), JStr("Indoor"), JInt(150))), TWs, TFence>>,
      <<TProse, TJson(Scene(JStr("invalid_level"), JStr("invalid_location"),
                            JStr("not_a_number"))), TProse>>,
      <<TJson(Scene(JStr("clean"), JStr("outdoor"), JInt(-10)))>>,
      <<TJson(Scene(JStr("clean"), JStr("outdoor"), JFloat(75)))>>,
      <<TJson(Loaded("obj", Dict([confidence |-> JStr("85")])))>>,
      <<TProse>>,
      <<TBroken>>,
      <<>>,
      <<TJson(Loaded("list", EmptyDict))>>,
      <<TJson(Loaded("str", EmptyDict))>>,
      <<TJson(Scene(JNull, JStr("indoor"), JInt(82)))>>,
      <<TJson(Scene(JStr("dirty"), JInt(1), JInt(82)))>>,
      <<TJson(Scene(JStr("dirty"), JStr("indoor"), JInf))>>,
      <<TJson(Loaded("obj", Dict([scene_summary |-> JNull])))>>,
      <<TJson(Loaded("obj", Dict([detected_objects |-> JNull])))>> }

Verdict(supports, consistency, strength) ==
    Loaded("obj", Dict([image_supports_claim |-> supports,
                        consistency_score |-> consistency,
                        evidence_strength |-> strength,
                        detected_inconsistencies |-> JList(1, "strs"),
                        possible_fraud_signals |-> JList(0, "strs"),
                        reasoning |-> JStr("Image shows the damage claimed.")]))

\* texts the reasoning model answers with
LLMTexts ==
    { <<TJson(Verdict(JBool(TRUE), JInt(85), JInt(78)))>>,
      <<TWs, TFence, TWs, TJson(Verdict(JStr("YES"), JInt(150), JInt(-10))),
        TWs, TFence, TWs>>,
      <<TProse, TJson(Verdict(JInt(1), JStr("85"), JNull))>>,
      <<TProse>>,
      <<TJson(Loaded("list", EmptyDict))>>,
      <<TJson(Verdict(JBool(TRUE), JNaN, JInt(78)))>>,
      <<TJson(Loaded("obj", Dict([reasoning |-> JNull])))>> }

\* the EXIFData records calculate_authenticity_score is called with
Records ==
    {EXIFData(dt, make, model, lat, lon, sw, "sha256", "50x50", 1) :
        dt \in {NoneStr, "", "2024:01:15 14:30:00"},
        make \in {NoneStr, "", "Apple"},
        model \in {NoneStr, "iPhone 13"},
        lat \in {NoneNum, 0, 12},
        lon \in {NoneNum, 77},
        sw \in {NoneStr, "17.2"}}

\* the EXIFData records extract_exif returns: _extract_gps_info yields both
\* coordinates or neither
FileRecords ==
    {EXIFData(dt, dev[1], dev[2], gps[1], gps[2], sw, "sha256", "50x50", 1) :
        dt \in {NoneStr, "", "2024:01:15 14:30:00", "2999:01:01 00:00:00",
                "not a date", "2024:01:15 14:30:00+05:30"},
        dev \in {<<NoneStr, NoneStr>>, <<"Apple", "iPhone 13">>,
                 <<NoneStr, "iPhone 13">>},
        gps \in {<<NoneNum, NoneNum>>, <<12, 77>>, <<0, 77>>},
        sw \in {NoneStr, "17.2", "Adobe Photoshop CC 2019", "GIMP 2.10"}}

\* what extract_exif does with the file at image_path
Images ==
    {[exc |-> "none", exif |-> e] : e \in FileRecords}
    \cup {[exc |-> x, exif |-> EmptyEXIFData] :
              x \in {"InvalidImageError", "ExifExtractionError"}}

\* the raw mappings _build_vision_analysis is called with: each field
\* absent (JMissing), null, or a value of the expected or of another type
RawScenes ==
    {Loaded("obj", Dict([scene_summary |-> JStr("Water damaged ceiling."),
                         detected_objects |-> objects,
                         damage_detected |-> rest,
                         safety_hazards |-> rest,
                         cleanliness_level |-> cleanliness,
                         indoor_outdoor |-> location,
                         confidence |-> confidence])) :
        objects \in {JMissing, JNull, JList(2, "strs")},
        rest \in {JMissing, JList(1, "strs")},
        cleanliness \in {JMissing, JNull, JInt(1), JStr("dirty"), JStr("DIRTY"),
                         JStr("invalid_level")},
        location \in {JMissing, JNull, JStr("Indoor"), JStr("outdoor"),
                      JStr("invalid_location")},
        confidence \in {JMissing, JNull, JInt(82), JInt(150), JInt(-10),
                        JBool(TRUE), JFloat(75), JNaN, JInf, JStr("85"),
                        JStr("not_a_number"), JList(0, "strs")}}

\* the mappings _build_multimodal_verdict is called with
RawVerdicts ==
    {Verdict(supports, consistency, strength) :
        supports \in {JMissing, JNull, JBool(TRUE), JBool(FALSE), JStr("true"),
                      JStr("True"), JStr("YES"), JStr("1"), JStr("no"),
                      JInt(1), JInt(0)},
        consistency \in {JMissing, JNull, JInt(85), JInt(150), JInt(-10),
                         JFloat(75), JNaN, JInf, JStr("85"),
                         JStr("not_a_number")},
        strength \in {JMissing, JInt(78), JInt(-10), JStr("150")}}

\* the files extract_exif is called on
ImageFiles ==
    {ImageFile(exists, size, suffix, decodes, fails, has_block, tags) :
        exists \in BOOLEAN,
        size \in {1, MAX_FILE_SIZE, MAX_FILE_SIZE + 1},
        suffix \in {".png", ".PNG", ".txt", ""},
        decodes \in BOOLEAN,
        fails \in BOOLEAN,
        has_block \in {TRUE},
        tags \in {EmptyEXIFData, DatetimeOnly, FullExif}}
    \cup {ImageFile(exists, size, suffix, decodes, fails, FALSE, EmptyEXIFData) :
        exists \in BOOLEAN,
        size \in {1, MAX_FILE_SIZE, MAX_FILE_SIZE + 1},
        suffix \in {".png", ".PNG", ".txt", ""},
        decodes \in BOOLEAN,
        fails \in BOOLEAN}

\* claim_text: None, the empty string, a claim
ClaimTexts == {NoneStr, "", "Water leak in kitchen ceiling"}

\* llm_service: None or an OllamaLLMService
Services == {"None", "OllamaLLMService"}

\* the scores 0..100
Scores == 0..100

\* the vision confidence and consistency score _calculate_final_score is
\* called with next to every authenticity score
ScoreSamples == {0, 5, 50, 80, 90, 100}

\* JSON objects a response carries
ObjA == Verdict(JBool(TRUE), JInt(85), JInt(78))
ObjB == Loaded("obj", Dict([reasoning |-> JStr("value")]))

TextAlphabet ==
    {TProse, TWs, TFenceJson, TFence, TBroken, TJson(ObjA), TJson(ObjB),
     TJson(Loaded("list", EmptyDict))}

\* every text of at most n tokens
RECURSIVE TextsUpTo(_)
TextsUpTo(n) ==
    IF n = 0 THEN {<<>>}
    ELSE LET shorter == TextsUpTo(n - 1)
         IN  shorter \cup {Append(t, tok) : t \in shorter, tok \in TextAlphabet}

\* prose without backticks before or after the JSON; it may hold braces
ProseAround ==
    {<<>>, <<TProse>>, <<TProse, TWs>>, <<TWs, TProse>>, <<TWs>>,
     <<TBroken, TWs>>, <<TWs, TBroken>>}

\* v in a fenced block, labelled or not
FencedForms(v) ==
    {<<TFenceJson, TWs, TJson(v), TWs, TFence>>,
     <<TFenceJson, TJson(v), TFence>>,
     <<TFence, TWs, TJson(v), TWs, TFence>>}

\* v as its bare JSON text
BareForms(v) == {<<TJson(v)>>}

WrappedTexts ==
    {pre \o w \o post :
        pre \in ProseAround, post \in ProseAround,
        w \in UNION {FencedForms(v) \cup BareForms(v) : v \in {ObjA, ObjB}}}

\* texts _parse_json_response is called with
ResponseTexts == TextsUpTo(MaxTextLen) \cup WrappedTexts

\* the calls of analyze_evidence that run concurrently on one pipeline
Invocations == {1, 2}

\* the names a file of the temp directory can have
Names == 1..MaxNames

\* the locals of a call of analyze_evidence that has not started
NotStarted == [pc |-> "idle", temp_file |-> 0, temp_path |-> 0, cleaned |-> FALSE]

\* a temporary file opened under a name whether or not a file has it
FreshNamesAny(files) == Names

\* tempfile.NamedTemporaryFile(delete=False, dir=self.temp_dir): the file is
\* created exclusively, under a name no file of the directory has
FreshNames(files) == Names \ files

\* ------------------------------------------------------------------- state
VARIABLES
    pc,                 \* where analyze_evidence stands
    max_retries,        \* OllamaLLMService.max_retries
    retry_delay,        \* OllamaLLMService.retry_delay
    fs,                 \* the files that exist in the temp directory
    created,            \* the files download_image has created so far
    temp_file,          \* download_image: the file being written, 0 if none
    temp_path,          \* analyze_evidence: temp_path, 0 for None
    total_size,         \* download_image: running byte count
    written,            \* bytes written to temp_file
    get_count,          \* HTTP GET requests issued
    url_suffix,         \* download_image: the suffix of the URL path, kept
                        \* until download_image returns a file
    exif_exc,           \* what extract_exif raised, "none" if it returned
    exif_data,
    exif_authenticity,
    vision_posts,       \* HTTP POST requests sent to the vision endpoint
    vision_reply,       \* how the vision request ended
    llava_result,
    vision_analysis,
    attempt,            \* query: the loop variable
    last_error,         \* query: last_error, "None" or an exception type
    outcomes,           \* query: what each attempt so far brought
    sleeps,             \* query: the delays slept so far
    query_exit,         \* query: how the call ended
    multimodal_verdict,
    final_score,
    trust_level,
    cause,              \* the exception raised inside the try block
    pending,            \* "none", "return", or the exception propagating
    outcome,            \* how analyze_evidence ended
    stages,             \* the stages run so far, in order
    call,               \* the entry point called instead of analyze_evidence
    raised,             \* the exception that call let escape, "none" if none
    response_text,      \* _parse_json_response: its argument
    parsed,             \* _parse_json_response: what it returned
    raw_response,       \* the text held by the raw_response item of parsed
    image,              \* what extract_exif does with the file at image_path
    claim_text,         \* validate_evidence: claim_text, NoneStr for None
    llm_service,        \* validate_evidence: llm_service, "None" if not given
    record,             \* the EXIFData passed to or extracted by the call
    validation_score,   \* the authenticity score the call returned
    validation_trust,   \* the trust level the call returned
    tamper_analysis,    \* the TamperAnalysis the call returned
    alignment_analysis, \* validate_evidence: "None" or "AlignmentAnalysis"
    score_args,         \* _calculate_final_score: its three arguments
    score_result,       \* _calculate_final_score: what it returned
    image_file,         \* extract_exif: the file at image_path
    message,            \* the message of the exception the call raised
    llm_result,         \* _build_multimodal_verdict: its argument
    prompt,             \* _perform_multimodal_reasoning: what it sends
    invocation,         \* concurrent calls of analyze_evidence: the locals
                        \* of each (where it stands, temp_file, temp_path)
    owner,              \* the call that created each file of the directory
    accesses            \* the file accesses made by the concurrent calls

vars ==
    <<pc, max_retries, retry_delay, fs, created, temp_file, temp_path,
      total_size, written, get_count, url_suffix, exif_exc, exif_data,
      exif_authenticity, vision_posts, vision_reply, llava_result,
      vision_analysis, attempt,
      last_error, outcomes, sleeps, query_exit, multimodal_verdict,
      final_score, trust_level, cause, pending, outcome, stages,
      call, raised, response_text, parsed, raw_response, image, claim_text,
      llm_service, record, validation_score, validation_trust,
      tamper_analysis, alignment_analysis, score_args, score_result,
      image_file, message, llm_result, prompt, invocation, owner, accesses>>

config_vars == <<max_retries, retry_delay>>
download_vars ==
    <<fs, created, temp_file, temp_path, total_size, written, get_count,
      url_suffix>>
exif_vars == <<exif_exc, exif_data, exif_authenticity>>
vision_vars == <<vision_posts, vision_reply, llava_result, vision_analysis>>
query_vars == <<attempt, last_error, outcomes, sleeps, query_exit>>
result_vars == <<multimodal_verdict, final_score, trust_level>>
parse_vars == <<response_text, parsed, raw_response>>
validator_vars ==
    <<image, claim_text, llm_service, record, validation_score,
      validation_trust, tamper_analysis, alignment_analysis>>
score_vars == <<score_args, score_result>>
extract_vars == <<image_file, message>>
build_vars == <<llm_result>>
entry_vars ==
    <<call, raised, parse_vars, validator_vars, score_vars, extract_vars,
      build_vars>>
concurrent_vars == <<invocation, owner, accesses>>
pipeline_vars ==
    <<download_vars, exif_vars, vision_vars, query_vars, result_vars,
      cause, pending, outcome, stages, prompt>>

Init ==
    /\ pc = "idle"
    /\ max_retries \in 0..MaxRetriesBound
    /\ retry_delay \in 1..MaxRetryDelay
    /\ fs = {} /\ created = {}
    /\ temp_file = 0 /\ temp_path = 0
    /\ total_size = 0 /\ written = 0 /\ get_count = 0
    /\ url_suffix = NoneStr
    /\ exif_exc = "none" /\ exif_data = EmptyEXIFData /\ exif_authenticity = 0
    /\ vision_posts = 0 /\ vision_reply = "none"
    /\ llava_result = NoValue /\ vision_analysis = NoVisionAnalysis
    /\ attempt = 0 /\ last_error = "None"
    /\ outcomes = <<>> /\ sleeps = <<>> /\ query_exit = NoExit
    /\ multimodal_verdict = NoVerdict /\ final_score = 0
    /\ trust_level = "UNTRUSTED"
    /\ cause = "none" /\ pending = "none"
    /\ outcome = "running"
    /\ stages = <<>>
    /\ call = "none" /\ raised = "none"
    /\ response_text = <<>> /\ parsed = NoValue /\ raw_response = <<>>
    /\ image = [exc |-> "none", exif |-> EmptyEXIFData]
    /\ claim_text = NoneStr /\ llm_service = "None"
    /\ record = EmptyEXIFData
    /\ validation_score = 0 /\ validation_trust = "UNTRUSTED"
    /\ tamper_analysis = NoTamperAnalysis /\ alignment_analysis = "None"
    /\ score_args = <<0, 0, 0>> /\ score_result = 0
    /\ image_file = ImageFile(FALSE, 1, "", FALSE, FALSE, FALSE, EmptyEXIFData)
    /\ message = ""
    /\ llm_result = NoValue
    /\ prompt = MultimodalPrompt(NoValue, EmptyEXIFData)
    /\ invocation = [i \in Invocations |-> NotStarted]
    /\ owner = [f \in Names |-> 0]
    /\ accesses = {}

\* an exception leaves the try block: the except clauses pick what
\* propagates, and the finally block is next
Raise(exc) ==
    /\ cause' = exc
    /\ pending' = ExceptClauses(exc)
    /\ pc' = "cleanup"

\* VisionService.download_image up to the creation of the temporary file
DownloadOpen ==
    /\ pc = "idle"
    /\ stages' = Append(stages, "Acquire")
    /\ \E suffix \in UrlSuffixes, got \in GetOutcomes :
        LET ext == IF suffix = "" THEN ".jpg" ELSE suffix
        IN  /\ url_suffix' = suffix
            /\ IF ext \notin ALLOWED_EXTENSIONS
               THEN /\ Raise("InvalidImageError")
                    /\ UNCHANGED <<fs, created, temp_file, temp_path,
                                   total_size, written, get_count>>
               ELSE /\ get_count' = get_count + 1
                    /\ CASE got \in {"RequestException", "over"} ->
                               /\ Raise("InvalidImageError")
                               /\ UNCHANGED <<fs, created, temp_file>>
                         [] got = "malformed" ->
                               /\ Raise("ValueError")
                               /\ UNCHANGED <<fs, created, temp_file>>
                         [] OTHER ->
                               LET f == Cardinality(created) + 1
                               IN  /\ fs' = fs \cup {f}
                                   /\ created' = created \cup {f}
                                   /\ temp_file' = f
                                   /\ pc' = "stream"
                                   /\ UNCHANGED <<cause, pending>>
                    /\ UNCHANGED <<temp_path, total_size, written>>
    /\ UNCHANGED <<config_vars, concurrent_vars, entry_vars, prompt, exif_vars, vision_vars, query_vars,
                   result_vars, outcome>>

\* one iteration of the loop over response.iter_content: a chunk arrives,
\* or the stream breaks, or the write fails
DownloadChunk ==
    /\ pc = "stream"
    /\ \/ \E n \in 1..MaxChunk :
            /\ total_size' = total_size + n
            /\ IF total_size + n > MAX_FILE_SIZE
               THEN /\ fs' = fs \ {temp_file}
                    /\ Raise("InvalidImageError")
                    /\ UNCHANGED written
               ELSE /\ written' = written + n
                    /\ UNCHANGED <<fs, cause, pending, pc>>
       \/ /\ Raise("InvalidImageError")
          /\ UNCHANGED <<fs, total_size, written>>
       \/ /\ Raise("OSError")
          /\ UNCHANGED <<fs, total_size, written>>
    /\ UNCHANGED <<config_vars, concurrent_vars, entry_vars, prompt, created, temp_file, temp_path,
                   get_count, url_suffix, exif_vars, vision_vars, query_vars,
                   result_vars, outcome, stages>>

\* the stream ends: download_image closes the file and returns its name
DownloadEnd ==
    /\ pc = "stream"
    /\ temp_path' = temp_file
    /\ url_suffix' = NoneStr
    /\ pc' = "exif"
    /\ UNCHANGED <<config_vars, concurrent_vars, entry_vars, prompt, fs, created, temp_file, total_size,
                   written, get_count, exif_vars, vision_vars, query_vars,
                   result_vars, cause, pending, outcome, stages>>

\* step 2 of analyze_evidence: _extract_exif_safe, calculate_authenticity_score
ExtractExif ==
    /\ pc = "exif"
    /\ \E r \in ExifOutcomes :
        /\ exif_exc' = r.exc
        /\ exif_data' = extract_exif_safe(r)
        /\ exif_authenticity' = calculate_authenticity_score(extract_exif_safe(r))
    /\ stages' = stages \o <<"ExtractMetadata", "ScoreAuthenticity">>
    /\ pc' = FollowingStep("exif")
    /\ UNCHANGED <<config_vars, concurrent_vars, entry_vars, prompt, download_vars, vision_vars, query_vars,
                   result_vars, cause, pending, outcome>>

\* the except clauses in the other order: a timeout is a RequestException
VisionErrorConnection(reply) == "LLMConnectionError"

\* VisionService.analyze_image, its except clauses: requests.Timeout is
\* raised as LLMTimeoutError, any other RequestException as LLMConnectionError
VisionError(reply) ==
    IF reply = "timeout" THEN "LLMTimeoutError" ELSE "LLMConnectionError"

\* step 3 of analyze_evidence: VisionService.analyze_image, then
\* _build_vision_analysis. A reply that parses to a JSON value that is not
\* an object already fails in analyze_image, at analysis.get, with the
\* AttributeError build_vision_analysis reports for it.
AnalyzeVision ==
    /\ pc = "vision"
    /\ stages' = Append(stages, "AnalyzeVision")
    /\ IF temp_path \notin fs
       THEN /\ Raise("InvalidImageError")
            /\ UNCHANGED vision_vars
       ELSE /\ vision_posts' = vision_posts + 1
            /\ \/ \E reply \in {"timeout", "connection"} :
                    /\ vision_reply' = reply
                    /\ Raise(VisionError(reply))
                    /\ UNCHANGED <<llava_result, vision_analysis>>
               \/ \E text \in VisionTexts :
                    LET analysis == VisionParseJsonResponse(text)
                        built == build_vision_analysis(analysis)
                    IN  /\ vision_reply' = "ok"
                        /\ IF built.exc # "none"
                           THEN /\ Raise(built.exc)
                                /\ UNCHANGED <<llava_result, vision_analysis>>
                           ELSE /\ llava_result' = analysis
                                /\ vision_analysis' = built.va
                                /\ pc' = FollowingStep("vision")
                                /\ UNCHANGED <<cause, pending>>
    /\ UNCHANGED <<config_vars, concurrent_vars, entry_vars, prompt, download_vars, exif_vars, query_vars,
                   result_vars, outcome>>

\* step 4 of analyze_evidence: _perform_multimodal_reasoning builds the
\* prompt and enters OllamaLLMService.query
ReasonBegin ==
    /\ pc = "reason"
    /\ stages' = Append(stages, "ReasonMultimodal")
    /\ attempt' = 0
    /\ last_error' = "None"
    /\ prompt' = MultimodalPrompt(llava_result, exif_data)
    /\ pc' = "query"
    /\ UNCHANGED <<config_vars, concurrent_vars, entry_vars, download_vars, exif_vars, vision_vars,
                   outcomes, sleeps, query_exit, result_vars, cause, pending,
                   outcome>>

\* query ends: _perform_multimodal_reasoning builds the verdict from what
\* it returned, or handles the exception of the query or of the building
QueryEnds(q) ==
    LET built == build_multimodal_verdict(q.v)
        exc == IF q.status = "raised" THEN q.exc ELSE built.exc
    IN  /\ query_exit' = q
        /\ IF exc = "none"
           THEN /\ multimodal_verdict' = built.verdict
                /\ pc' = FollowingStep("query")
                /\ UNCHANGED <<cause, pending>>
           ELSE IF ReasoningExcept(exc) = "none"
           THEN /\ multimodal_verdict' = NeutralVerdict
                /\ pc' = FollowingStep("query")
                /\ UNCHANGED <<cause, pending>>
           ELSE /\ Raise(ReasoningExcept(exc))
                /\ UNCHANGED multimodal_verdict

\* one iteration of the retry loop of OllamaLLMService.query
QueryAttempt ==
    /\ pc = "query"
    /\ attempt < max_retries
    /\ \E o \in QueryOutcomes, text \in LLMTexts :
        /\ outcomes' = Append(outcomes, o)
        /\ IF o = "ok"
           THEN /\ QueryEnds([status |-> "returned", exc |-> "none",
                              v |-> LLMParseJsonResponse(text)])
                /\ UNCHANGED <<attempt, last_error, sleeps>>
           ELSE IF RaisesAtOnce(o)
           THEN /\ QueryEnds([status |-> "raised", exc |-> "LLMConnectionError",
                              v |-> NoValue])
                /\ UNCHANGED <<attempt, last_error, sleeps>>
           ELSE /\ last_error' = AttemptError(o)
                /\ sleeps' = IF SleepsAfter(attempt, max_retries)
                             THEN Append(sleeps, BackoffDelay(retry_delay, attempt))
                             ELSE sleeps
                /\ attempt' = attempt + 1
                /\ UNCHANGED <<query_exit, multimodal_verdict, pc, cause, pending>>
    /\ UNCHANGED <<config_vars, concurrent_vars, entry_vars, prompt, download_vars, exif_vars, vision_vars,
                   final_score, trust_level, outcome, stages>>

\* the loop of query is over without a return: all retries failed
QueryExhausted ==
    /\ pc = "query"
    /\ attempt >= max_retries
    /\ QueryEnds([status |-> "raised", exc |-> ExhaustedError(last_error),
                  v |-> NoValue])
    /\ UNCHANGED <<config_vars, concurrent_vars, entry_vars, prompt, download_vars, exif_vars, vision_vars, attempt,
                   last_error, outcomes, sleeps, final_score, trust_level,
                   outcome, stages>>

\* step 5 of analyze_evidence: the final score, the trust level and the
\* ImageEvidenceAnalysis that is returned
Aggregate ==
    /\ pc = "aggregate"
    /\ stages' = Append(stages, "Aggregate")
    /\ \E score \in calculate_final_score(exif_authenticity,
                                          vision_analysis.confidence,
                                          multimodal_verdict.consistency_score) :
        /\ final_score' = score
        /\ trust_level' = get_trust_level(score)
    /\ pending' = "return"
    /\ pc' = "cleanup"
    /\ UNCHANGED <<config_vars, concurrent_vars, entry_vars, prompt, download_vars, exif_vars, vision_vars,
                   query_vars, multimodal_verdict, cause, outcome>>

\* VisionService.cleanup_temp_file
cleanup_temp_file(files, file_path) ==
    IF file_path # 0 /\ file_path \in files THEN files \ {file_path} ELSE files

\* the finally block of analyze_evidence, then the call ends
Cleanup ==
    /\ pc = "cleanup"
    /\ stages' = Append(stages, "Cleanup")
    /\ fs' = IF temp_path # 0 THEN cleanup_temp_file(fs, temp_path) ELSE fs
    /\ outcome' = IF pending = "return" THEN "returned" ELSE pending
    /\ pc' = "done"
    /\ UNCHANGED <<config_vars, concurrent_vars, entry_vars, prompt, created, temp_file, temp_path, total_size,
                   written, get_count, url_suffix, exif_vars, vision_vars, query_vars,
                   result_vars, cause, pending>>

\* OllamaLLMService._parse_json_response called on a response text
ParseJsonResponse ==
    /\ pc = "idle"
    /\ call' = "_parse_json_response"
    /\ \E text \in ResponseTexts :
        /\ response_text' = text
        /\ parsed' = LLMParseJsonResponse(text)
        /\ raw_response' = IF LLMParseJsonResponse(text).d["parse_error"].t = "bool"
                           THEN LLMRawResponse(text) ELSE <<>>
    /\ pc' = "called"
    /\ UNCHANGED <<config_vars, concurrent_vars, pipeline_vars, extract_vars, build_vars, raised, validator_vars, score_vars>>

\* VisionService._parse_json_response called on a response text
VisionParseJsonResponseCall ==
    /\ pc = "idle"
    /\ call' = "vision._parse_json_response"
    /\ \E text \in ResponseTexts :
        /\ response_text' = text
        /\ parsed' = VisionParseJsonResponse(text)
    /\ pc' = "called"
    /\ UNCHANGED <<config_vars, concurrent_vars, pipeline_vars, extract_vars, build_vars, raised,
                   raw_response, validator_vars, score_vars>>

\* EvidenceValidator.calculate_authenticity_score called on a record
CalculateAuthenticityScore ==
    /\ pc = "idle"
    /\ call' = "calculate_authenticity_score"
    /\ \E e \in Records :
        /\ record' = e
        /\ validation_score' = calculate_authenticity_score(e)
    /\ pc' = "called"
    /\ UNCHANGED <<config_vars, concurrent_vars, pipeline_vars, extract_vars, build_vars, raised, parse_vars, image,
                   claim_text, llm_service, validation_trust, tamper_analysis,
                   alignment_analysis, score_vars>>

\* EvidenceValidator.get_trust_level called on a score
GetTrustLevel ==
    /\ pc = "idle"
    /\ call' = "get_trust_level"
    /\ \E score \in Scores :
        /\ validation_score' = score
        /\ validation_trust' = get_trust_level(score)
    /\ pc' = "called"
    /\ UNCHANGED <<config_vars, concurrent_vars, pipeline_vars, extract_vars, build_vars, raised, parse_vars, image,
                   claim_text, llm_service, record, tamper_analysis,
                   alignment_analysis, score_vars>>

\* EvidenceValidator.detect_tampering called on an image path
DetectTampering ==
    /\ pc = "idle"
    /\ call' = "detect_tampering"
    /\ \E r \in Images :
        /\ image' = r
        /\ raised' = detect_tampering(r).exc
        /\ tamper_analysis' = detect_tampering(r).analysis
    /\ pc' = "called"
    /\ UNCHANGED <<config_vars, concurrent_vars, pipeline_vars, extract_vars, build_vars, parse_vars, claim_text,
                   llm_service, record, validation_score, validation_trust,
                   alignment_analysis, score_vars>>

\* EvidenceValidator.validate_evidence called on an image path
ValidateEvidence ==
    /\ pc = "idle"
    /\ call' = "validate_evidence"
    /\ \E r \in Images, text \in ClaimTexts, service \in Services :
        LET result == validate_evidence(r, text, service)
        IN  /\ image' = r
            /\ claim_text' = text
            /\ llm_service' = service
            /\ raised' = result.exc
            /\ record' = result.v.exif_data
            /\ validation_score' = result.v.authenticity_score
            /\ validation_trust' = result.v.trust_level
            /\ tamper_analysis' = result.v.tamper_analysis
            /\ alignment_analysis' = result.v.alignment_analysis
    /\ pc' = "called"
    /\ UNCHANGED <<config_vars, concurrent_vars, pipeline_vars, extract_vars, build_vars, parse_vars, score_vars>>

\* EvidencePipeline._calculate_final_score called on three scores
CalculateFinalScore ==
    /\ pc = "idle"
    /\ call' = "_calculate_final_score"
    /\ \E a \in Scores :
        \E v \in ScoreSamples \cup {a}, c \in ScoreSamples \cup {a} :
            /\ score_args' = <<a, v, c>>
            /\ score_result' \in calculate_final_score(a, v, c)
    /\ pc' = "called"
    /\ UNCHANGED <<config_vars, concurrent_vars, pipeline_vars, extract_vars, build_vars, raised, parse_vars, validator_vars>>

\* EvidenceValidator.extract_exif called on an image path
ExtractExifCall ==
    /\ pc = "idle"
    /\ call' = "extract_exif"
    /\ \E f \in ImageFiles :
        /\ image_file' = f
        /\ raised' = extract_exif(f).exc
        /\ message' = extract_exif(f).message
        /\ record' = extract_exif(f).exif
    /\ pc' = "called"
    /\ UNCHANGED <<config_vars, concurrent_vars, pipeline_vars, parse_vars, image, claim_text,
                   llm_service, validation_score, validation_trust,
                   tamper_analysis, alignment_analysis, score_vars, build_vars>>

\* EvidencePipeline._build_vision_analysis called on a raw mapping
BuildVisionAnalysis ==
    /\ pc = "idle"
    /\ call' = "_build_vision_analysis"
    /\ \E m \in RawScenes :
        /\ llava_result' = m
        /\ raised' = build_vision_analysis(m).exc
        /\ vision_analysis' = build_vision_analysis(m).va
    /\ pc' = "called"
    /\ UNCHANGED <<config_vars, concurrent_vars, prompt, download_vars, exif_vars, vision_posts,
                   vision_reply, query_vars, result_vars, cause, pending,
                   outcome, stages, parse_vars, validator_vars, score_vars,
                   extract_vars, build_vars>>

\* EvidencePipeline._build_multimodal_verdict called on a mapping
BuildMultimodalVerdict ==
    /\ pc = "idle"
    /\ call' = "_build_multimodal_verdict"
    /\ \E m \in RawVerdicts :
        /\ llm_result' = m
        /\ raised' = build_multimodal_verdict(m).exc
        /\ multimodal_verdict' = build_multimodal_verdict(m).verdict
    /\ pc' = "called"
    /\ UNCHANGED <<config_vars, concurrent_vars, prompt, download_vars, exif_vars, vision_vars,
                   query_vars, final_score, trust_level, cause, pending,
                   outcome, stages, parse_vars, validator_vars, score_vars,
                   extract_vars>>

Next ==
    \/ DownloadOpen
    \/ DownloadChunk
    \/ DownloadEnd
    \/ ExtractExif
    \/ AnalyzeVision
    \/ ReasonBegin
    \/ QueryAttempt
    \/ QueryExhausted
    \/ Aggregate
    \/ Cleanup
    \/ ParseJsonResponse
    \/ CalculateAuthenticityScore
    \/ GetTrustLevel
    \/ DetectTampering
    \/ ValidateEvidence
    \/ CalculateFinalScore
    \/ ExtractExifCall
    \/ BuildVisionAnalysis
    \/ BuildMultimodalVerdict
    \/ VisionParseJsonResponseCall

Spec == Init /\ [][Next]_vars

\* ------------------------------------------- concurrent analyze_evidence
\* Two calls of analyze_evidence on one EvidencePipeline, interleaved at
\* their accesses to the temp directory. Each call keeps temp_path and
\* download_image's temp_file in its own locals; the directory is shared.
sequential_vars ==
    <<pc, config_vars, created, temp_file, temp_path, total_size, written,
      get_count, url_suffix, exif_vars, vision_vars, query_vars, result_vars,
      cause, pending, outcome, stages, prompt, entry_vars>>

\* call i reaches the file at path: who created the file that is there
\* (0 if there is none), and whether the call had already cleaned up
Access(i, path) ==
    [by |-> i,
     owner |-> IF path \in fs THEN owner[path] ELSE 0,
     after_cleanup |-> invocation[i].cleaned]

\* download_image up to the creation of the temporary file
ConcurrentDownloadOpen(i) ==
    /\ invocation[i].pc = "idle"
    /\ \/ /\ invocation' = [invocation EXCEPT ![i].pc = "cleanup"]
          /\ UNCHANGED <<fs, owner, accesses>>
       \/ \E f \in FreshNames(fs) :
            /\ accesses' = accesses \cup
                   {[by |-> i,
                     owner |-> IF f \in fs THEN owner[f] ELSE i,
                     after_cleanup |-> invocation[i].cleaned]}
            /\ fs' = fs \cup {f}
            /\ owner' = [owner EXCEPT ![f] = i]
            /\ invocation' = [invocation EXCEPT ![i].pc = "stream",
                                                ![i].temp_file = f]
    /\ UNCHANGED sequential_vars

\* one iteration of the loop over response.iter_content: the chunk is
\* written, or it takes the size over the ceiling and the file is closed
\* and unlinked, or the stream breaks
ConcurrentDownloadChunk(i) ==
    LET f == invocation[i].temp_file
    IN  /\ invocation[i].pc = "stream"
        /\ \/ /\ accesses' = accesses \cup {Access(i, f)}
              /\ UNCHANGED <<fs, owner, invocation>>
           \/ /\ accesses' = accesses \cup {Access(i, f)}
              /\ fs' = fs \ {f}
              /\ owner' = [owner EXCEPT ![f] = 0]
              /\ invocation' = [invocation EXCEPT ![i].pc = "cleanup"]
           \/ /\ invocation' = [invocation EXCEPT ![i].pc = "cleanup"]
              /\ UNCHANGED <<fs, owner, accesses>>
        /\ UNCHANGED sequential_vars

\* download_image returns temp_file.name, analyze_evidence keeps it
ConcurrentDownloadEnd(i) ==
    /\ invocation[i].pc = "stream"
    /\ invocation' = [invocation EXCEPT ![i].pc = "exif",
                                        ![i].temp_path = invocation[i].temp_file]
    /\ UNCHANGED <<fs, owner, accesses, sequential_vars>>

\* step 2: _extract_exif_safe(temp_path) reads the file
ConcurrentExtractExif(i) ==
    /\ invocation[i].pc = "exif"
    /\ accesses' = accesses \cup {Access(i, invocation[i].temp_path)}
    /\ invocation' = [invocation EXCEPT ![i].pc = "vision"]
    /\ UNCHANGED <<fs, owner, sequential_vars>>

\* step 3: analyze_image(temp_path) checks that the file exists and reads
\* it; the vision request then succeeds or raises
ConcurrentAnalyzeVision(i) ==
    /\ invocation[i].pc = "vision"
    /\ accesses' = accesses \cup {Access(i, invocation[i].temp_path)}
    /\ IF invocation[i].temp_path \notin fs
       THEN invocation' = [invocation EXCEPT ![i].pc = "cleanup"]
       ELSE \E next \in {"reason", "cleanup"} :
               invocation' = [invocation EXCEPT ![i].pc = next]
    /\ UNCHANGED <<fs, owner, sequential_vars>>

\* steps 4 and 5: the reasoning and the aggregation, without the file
ConcurrentReason(i) ==
    /\ invocation[i].pc = "reason"
    /\ invocation' = [invocation EXCEPT ![i].pc = "cleanup"]
    /\ UNCHANGED <<fs, owner, accesses, sequential_vars>>

\* the finally block: cleanup_temp_file(temp_path) if temp_path is set
ConcurrentCleanup(i) ==
    LET path == invocation[i].temp_path
    IN  /\ invocation[i].pc = "cleanup"
        /\ IF path # 0
           THEN /\ accesses' = accesses \cup {Access(i, path)}
                /\ fs' = cleanup_temp_file(fs, path)
                /\ owner' = [owner EXCEPT ![path] = 0]
           ELSE UNCHANGED <<fs, owner, accesses>>
        /\ invocation' = [invocation EXCEPT ![i].pc = "done",
                                            ![i].cleaned = TRUE]
        /\ UNCHANGED sequential_vars

NextConcurrent ==
    \E i \in Invocations :
        \/ ConcurrentDownloadOpen(i)
        \/ ConcurrentDownloadChunk(i)
        \/ ConcurrentDownloadEnd(i)
        \/ ConcurrentExtractExif(i)
        \/ ConcurrentAnalyzeVision(i)
        \/ ConcurrentReason(i)
        \/ ConcurrentCleanup(i)

SpecConcurrent == Init /\ [][NextConcurrent]_vars

TypeOK ==
    /\ pc \in {"idle", "stream", "exif", "vision", "reason", "query",
               "aggregate", "cleanup", "done", "called"}
    /\ outcome \in {"running", "returned", "InvalidImageError", "AnalysisError"}
    /\ attempt \in 0..(MaxRetriesBound + 1)
    /\ total_size \in 0..(MAX_FILE_SIZE + MaxChunk)

\* ------------------------------------------------------------ properties
LLMErrors == {"LLMTimeoutError", "LLMConnectionError"}

\* download_image raised InvalidImageError: the Acquire stage failed with it
AcquireRaisedInvalid == cause = "InvalidImageError" /\ temp_path = 0

\* the retryable failures among the attempts of query so far
FailedAttempts == {i \in 1..Len(outcomes) : outcomes[i] \notin {"ok", "status"}}

\* query left its loop without a return and without a non-200 status
Exhausted ==
    /\ query_exit.status = "raised"
    /\ \A i \in 1..Len(outcomes) : outcomes[i] # "status"

\* C1: once analyze_evidence has ended, on every exit path, no temporary
\* file created by the download of this invocation still exists.
C1_NoTempFileAfterExit == pc = "done" => created \cap fs = {}

\* C2: if the Model Client call made for multimodal reasoning raises,
\* analyze_evidence does not raise: the verdict is the neutral one
\* (image_supports_claim false, both scores 50, exactly one inconsistency
\* noting the failure, reasoning noting incomplete analysis) and the result
\* returned carries a final score aggregated with consistency 50.
C2_ReasoningFailureDegrades ==
    query_exit.status = "raised" =>
        /\ multimodal_verdict.image_supports_claim = FALSE
        /\ multimodal_verdict.consistency_score = 50
        /\ multimodal_verdict.evidence_strength = 50
        /\ multimodal_verdict.detected_inconsistencies
               = <<"Unable to perform full analysis">>
        /\ multimodal_verdict.reasoning = "Analysis incomplete"
        /\ cause = "none"
        /\ pending \in {"none", "return"}
        /\ pc = "done" =>
              /\ outcome = "returned"
              /\ final_score \in {Clamp((3 * exif_authenticity
                                         + 3 * vision_analysis.confidence
                                         + 200 + k) \div 10) : k \in {4, 5}}

C2_Witness ==
    /\ pc = "done"
    /\ outcome = "returned"
    /\ query_exit.exc = "LLMConnectionError"
    /\ Len(outcomes) >= 2
    /\ \A i \in 1..Len(outcomes) : outcomes[i] = "connection"

C5_MalformedOutputNeverRaises ==
    (/\ pc = "done"
     /\ temp_path # 0
     /\ vision_reply = "ok"
     /\ \A i \in 1..Len(outcomes) : outcomes[i] = "ok")
        => outcome = "returned"

\* C6: in every result analyze_evidence returns, the vision confidence, the
\* consistency score, the evidence strength and the final score are
\* integers within 0..100, whatever numbers the models wrote.
C6_ScoresInRange ==
    outcome = "returned" =>
        /\ vision_analysis.confidence \in 0..100
        /\ multimodal_verdict.consistency_score \in 0..100
        /\ multimodal_verdict.evidence_strength \in 0..100
        /\ final_score \in 0..100

C6_Witness ==
    /\ outcome = "returned"
    /\ llava_result.d["confidence"].n = 150
    /\ query_exit.v.d["evidence_strength"].n = -10
    /\ vision_analysis.confidence = 100
    /\ multimodal_verdict.evidence_strength = 0

\* C7: an attempt of query that receives a non-200 status is the last one:
\* query has raised LLMConnectionError, and no wait follows that attempt,
\* whatever its index and whatever failures came before it.
C7_StatusFailsAtOnce ==
    \A i \in 1..Len(outcomes) :
        outcomes[i] = "status" =>
            /\ i = Len(outcomes)
            /\ query_exit.status = "raised"
            /\ query_exit.exc = "LLMConnectionError"
            /\ Len(sleeps) = i - 1
            /\ attempt = i - 1

C7_Witness ==
    /\ outcomes = <<"timeout", "connection", "status">>
    /\ query_exit.exc = "LLMConnectionError"
    /\ Len(sleeps) = 2

\* C8: query makes at most max_retries attempts; after the failed attempt
\* k (from 0) that is not the last one allowed it waits retry_delay * 2^k,
\* and it never waits after the last one; a successful attempt is the last
\* and ends the call with a return; once the loop is over the call has
\* ended, and with max_retries = 0 it ends without any attempt.
C8_BoundedBackoff ==
    /\ Len(outcomes) <= max_retries
    /\ attempt <= max_retries
    /\ \A k \in 1..Len(sleeps) : sleeps[k] = retry_delay * (2 ^ (k - 1))
    /\ Len(sleeps) = IF Cardinality(FailedAttempts) < max_retries
                     THEN Cardinality(FailedAttempts)
                     ELSE max_retries - 1 + (IF max_retries = 0 THEN 1 ELSE 0)
    /\ \A i \in 1..Len(outcomes) :
          outcomes[i] = "ok" => /\ i = Len(outcomes)
                                /\ query_exit.status = "returned"
    /\ pc \in {"aggregate", "cleanup", "done"} /\ vision_reply = "ok" /\ cause = "none"
          => query_exit.status \in {"returned", "raised"}
    /\ (max_retries = 0 /\ query_exit.status # "none")
          => /\ outcomes = <<>>
             /\ query_exit.status = "raised"

C8_Witness ==
    /\ max_retries = 4
    /\ Len(outcomes) = 4
    /\ sleeps = <<retry_delay, 2 * retry_delay, 4 * retry_delay>>
    /\ query_exit.status = "raised"
    /\ retry_delay = 2

\* C9 as stated: when query exhausts its retries it raises LLMTimeoutError
\* if and only if every failed attempt was a timeout.
C9_TimeoutIffAllTimeouts ==
    (Exhausted /\ Len(outcomes) >= 1) =>
        (query_exit.exc = "LLMTimeoutError"
             <=> \A i \in 1..Len(outcomes) : outcomes[i] = "timeout")

\* C9 amended: when query exhausts its retries it raises LLMTimeoutError if
\* and only if it made an attempt and the last failed attempt was a
\* timeout, whatever the earlier failures were; otherwise it raises
\* LLMConnectionError.
C9_TimeoutIffLastTimeout ==
    Exhausted =>
        /\ query_exit.exc \in LLMErrors
        /\ query_exit.exc = "LLMTimeoutError"
              <=> (Len(outcomes) >= 1 /\ outcomes[Len(outcomes)] = "timeout")

C9_Witness ==
    /\ Exhausted
    /\ outcomes = <<"connection", "timeout">>
    /\ query_exit.exc = "LLMTimeoutError"

ParseCalled == call = "_parse_json_response"

\* prose that holds neither braces nor backticks
PlainProse ==
    {p \in ProseAround : \A i \in 1..Len(p) : p[i].k \in {"P", "W"}}

\* what each repair step obtains from the trimmed response, in the order
\* direct, json fence, any fence, greedy brace match
RepairSteps ==
    LET text == strip(response_text)
    IN  <<json_loads(text),
          FencedLoad(text, 1, TRUE),
          FencedLoad(text, 1, FALSE),
          IF GreedyBraces(text).found
          THEN json_loads(GreedyBraces(text).m) ELSE NotLoaded>>

\* the result is that of the first repair step that obtains JSON
FirstStepWins ==
    LET ok == {i \in 1..4 : RepairSteps[i].ok}
    IN  ok # {} => parsed = RepairSteps[CHOOSE i \in ok : \A j \in ok : i <= j].v

C12_SentinelKeepsOriginalText ==
    (ParseCalled /\ \A i \in 1..4 : ~RepairSteps[i].ok) =>
        /\ raised = "none"
        /\ parsed = Loaded("obj", LLMSentinel)
        /\ parsed.d["parse_error"] = JBool(TRUE)
        /\ raw_response = response_text

\* C13: for every metadata record, whatever the values its present fields
\* hold, calculate_authenticity_score returns +40 if any of timestamp, make,
\* model, GPS, software is present, +30 if the timestamp is present, +20 if
\* make or model is present, +10 if both GPS coordinates are present, a
\* value within 0..100 that depends on these presence conditions only.
\* A field is present when it is not None; GPS counts as present in the
\* first rule either when both coordinates are or when one of them is.
C13_ScoreFromPresence ==
    call = "calculate_authenticity_score" =>
        LET timestamp == record.datetime_original # NoneStr
            device == \/ record.device_make # NoneStr
                      \/ record.device_model # NoneStr
            software == record.software # NoneStr
            both == /\ record.gps_latitude # NoneNum
                    /\ record.gps_longitude # NoneNum
            either == \/ record.gps_latitude # NoneNum
                      \/ record.gps_longitude # NoneNum
            Expected(gps) ==
                (IF timestamp \/ device \/ gps \/ software THEN 40 ELSE 0)
                + (IF timestamp THEN 30 ELSE 0)
                + (IF device THEN 20 ELSE 0)
                + (IF both THEN 10 ELSE 0)
        IN  /\ validation_score \in {Expected(both), Expected(either)}
            /\ validation_score \in 0..100

\* the order UNTRUSTED < LOW < MEDIUM < HIGH
TierRank(tier) ==
    CASE tier = "UNTRUSTED" -> 0
      [] tier = "LOW TRUST" -> 1
      [] tier = "MEDIUM TRUST" -> 2
      [] tier = "HIGH TRUST" -> 3

C15_TamperRules ==
    (call = "detect_tampering" /\ image.exc = "none") =>
        LET e == image.exif
            nometa == ~(\/ Truthy(e.datetime_original)
                        \/ Truthy(e.device_make)
                        \/ TruthyNum(e.gps_latitude))
            editor == e.software \in {"Adobe Photoshop CC 2019", "GIMP 2.10"}
            future == e.datetime_original = "2999:01:01 00:00:00"
            sum == (IF nometa THEN 30 ELSE 0) + (IF editor THEN 40 ELSE 0)
                   + (IF future THEN 50 ELSE 0)
            probability == IF sum > 100 THEN 100 ELSE sum
            fired ==
                (IF nometa THEN <<"Missing or stripped EXIF metadata">> ELSE <<>>)
                \o (IF editor
                    THEN <<"Editing software detected: " \o e.software>>
                    ELSE <<>>)
                \o (IF future
                    THEN <<"Image timestamp is in the future">> ELSE <<>>)
        IN  /\ raised = "none"
            /\ tamper_analysis.tamper_probability = probability
            /\ tamper_analysis.tamper_probability \in 0..100
            /\ tamper_analysis.indicators =
                   (IF fired = <<>> THEN <<"No tampering indicators detected">>
                    ELSE fired)
            /\ tamper_analysis.conclusion =
                   (IF probability < 20 THEN "Low risk of tampering detected"
                    ELSE IF probability < 50
                         THEN "Moderate tampering indicators found"
                    ELSE "High probability of image manipulation")

\* C16: detect_tampering never lets an exception escape: when the metadata
\* extraction it runs fails, for an invalid file or an extraction error, it
\* returns probability exactly 0.5 and a non-empty indicator list whose
\* entry says that the analysis could not be completed.
C16_TamperNeverRaises ==
    call = "detect_tampering" =>
        /\ raised = "none"
        /\ image.exc # "none" =>
              /\ tamper_analysis.tamper_probability = 50
              /\ tamper_analysis.indicators
                     = <<"Could not complete tampering analysis">>

C16_Witness ==
    /\ call = "detect_tampering"
    /\ image.exc = "InvalidImageError"
    /\ raised = "none"
    /\ tamper_analysis.tamper_probability = 50

\* C17: for all integers authenticity, vision confidence and consistency
\* in 0..100, _calculate_final_score returns the weighted sum
\* 0.3 a + 0.3 v + 0.4 c rounded to a nearest integer and clamped to
\* 0..100 (70, 80, 90 gives 81); the result never decreases when one input
\* increases, and it is x when the three inputs are x.
C17_FinalScoreRounded ==
    call = "_calculate_final_score" =>
        LET a == score_args[1]
            v == score_args[2]
            c == score_args[3]
            tenths == 3 * a + 3 * v + 4 * c
        IN  /\ score_result \in 0..100
            /\ 10 * score_result - tenths \in -5..5
            /\ score_args = <<70, 80, 90>> => score_result = 81
            /\ (a = v /\ v = c) => score_result = a
            /\ \A more \in Scores :
                  /\ more > a =>
                        \A r \in calculate_final_score(more, v, c) :
                            r >= score_result
                  /\ more > v =>
                        \A r \in calculate_final_score(a, more, c) :
                            r >= score_result
                  /\ more > c =>
                        \A r \in calculate_final_score(a, v, more) :
                            r >= score_result

C17_Witness ==
    /\ call = "_calculate_final_score"
    /\ score_args = <<70, 80, 90>>
    /\ score_result = 81

\* validate_evidence was called and returned a result
Validated == call = "validate_evidence" /\ raised = "none"

\* the image holds no embedded metadata
NoEmbeddedMetadata ==
    /\ image.exif.datetime_original = NoneStr
    /\ image.exif.device_make = NoneStr
    /\ image.exif.device_model = NoneStr
    /\ image.exif.gps_latitude = NoneNum
    /\ image.exif.gps_longitude = NoneNum
    /\ image.exif.software = NoneStr

\* C18: validate_evidence on a valid image without embedded metadata, with
\* no claim and no model service, returns authenticity score 0, trust tier
\* UNTRUSTED, an indicator list that contains the missing-metadata
\* indicator, and no alignment analysis; whatever the image, the result
\* holds an alignment analysis if and only if a non-empty claim text and a
\* model service were both supplied.
C18_ValidationAlone ==
    Validated =>
        /\ (NoEmbeddedMetadata /\ claim_text = NoneStr /\ llm_service = "None") =>
              /\ validation_score = 0
              /\ validation_trust = "UNTRUSTED"
              /\ \E i \in 1..Len(tamper_analysis.indicators) :
                    tamper_analysis.indicators[i]
                        = "Missing or stripped EXIF metadata"
              /\ alignment_analysis = "None"
        /\ alignment_analysis = "AlignmentAnalysis"
              <=> (claim_text \notin {NoneStr, ""} /\ llm_service # "None")

C18_Witness ==
    /\ Validated
    /\ NoEmbeddedMetadata
    /\ claim_text = NoneStr
    /\ llm_service = "None"
    /\ validation_score = 0
    /\ tamper_analysis.tamper_probability = 30

\* C19: in every result validate_evidence returns, the trust tier is the
\* tier of the authenticity score of that result, the score after the tamper
\* penalty if there was one; in every result analyze_evidence returns, the
\* trust tier is the tier of the final evidence score of that result.
C19_TierMatchesScore ==
    /\ Validated => validation_trust = get_trust_level(validation_score)
    /\ outcome = "returned" => trust_level = get_trust_level(final_score)

C19_Witness ==
    /\ Validated
    /\ tamper_analysis.tamper_probability > 50
    /\ calculate_authenticity_score(image.exif) = 70
    /\ validation_score = 40
    /\ validation_trust = "LOW TRUST"

\* C20: download_image issues no HTTP request for a URL whose extension is
\* not allowed; for any other URL the bytes written to the temporary file
\* never exceed the size ceiling: at the first chunk that takes the running
\* byte count over the ceiling the download ends with InvalidImageError,
\* that chunk is not written and the partial file is already deleted.
C20_DownloadBounded ==
    /\ get_count <= 1
    /\ url_suffix \notin {NoneStr, "", ".jpg", ".jpeg", ".png"} =>
          /\ get_count = 0
          /\ created = {}
          /\ cause = "InvalidImageError"
    /\ written <= MAX_FILE_SIZE
    /\ total_size > MAX_FILE_SIZE =>
          /\ written <= MAX_FILE_SIZE
          /\ total_size - written \in 1..MaxChunk
          /\ temp_file \notin fs
          /\ cause = "InvalidImageError"
          /\ pending = "InvalidImageError"
          /\ pc \in {"cleanup", "done"}

C20_Witness ==
    /\ pc = "done"
    /\ url_suffix = ".png"
    /\ written = MAX_FILE_SIZE
    /\ total_size > MAX_FILE_SIZE
    /\ created # {}
    /\ outcome = "InvalidImageError"

\* the stages of analyze_evidence, in the order of its statements
StageOrder ==
    <<"Acquire", "ExtractMetadata", "ScoreAuthenticity", "AnalyzeVision",
      "ReasonMultimodal", "Aggregate", "Cleanup">>

\* stage s has started
Started(s) == \E i \in 1..Len(stages) : stages[i] = s

\* C21: the stages of analyze_evidence start in the order Acquire,
\* ExtractMetadata, ScoreAuthenticity, AnalyzeVision, ReasonMultimodal,
\* Aggregate, Cleanup, none of them twice and none before its predecessor
\* has completed (an error exit goes from the failed stage to Cleanup); a
\* run that returns a result has run all seven, once each; and no request is
\* sent to the reasoning model before the vision analysis has returned.
C21_StagesInOrder ==
    /\ \E n \in 0..Len(StageOrder) :
          \/ stages = SubSeq(StageOrder, 1, n)
          \/ /\ n < Len(StageOrder) - 1
             /\ stages = Append(SubSeq(StageOrder, 1, n), "Cleanup")
    /\ outcome = "returned" => stages = StageOrder
    /\ Started("ExtractMetadata") => (temp_path # 0 /\ temp_path = temp_file)
    /\ Started("AnalyzeVision") => Started("ScoreAuthenticity")
    /\ Started("ReasonMultimodal") => (vision_reply = "ok" /\ vision_posts = 1)
    /\ Started("Aggregate") => query_exit.status \in {"returned", "raised"}
    /\ Started("Cleanup") => pc = "done"
    /\ (pc = "query" \/ outcomes # <<>>) =>
          (vision_reply = "ok" /\ Started("AnalyzeVision"))

C21_Witness ==
    /\ pc = "done"
    /\ outcome = "returned"
    /\ stages = StageOrder
    /\ outcomes = <<"timeout", "ok">>
    /\ query_exit.status = "returned"

\* C22: extract_exif raises InvalidImageError exactly when a gating check
\* fails, with the message of the first failing check in the order exists,
\* size within the maximum, extension allowed, decodes as an image; a
\* failure after the gating passed is raised as ExifExtractionError; no
\* other exception escapes; a valid image without a metadata block gives a
\* record whose populated fields are the hash, the dimensions and the size.
C22_GatingThenExtraction ==
    call = "extract_exif" =>
        LET f == image_file
            first ==
                IF ~f.exists THEN "Image file does not exist"
                ELSE IF f.size > MAX_FILE_SIZE THEN "Image file too large"
                ELSE IF f.suffix \notin {".jpg", ".jpeg", ".png", ".PNG"}
                     THEN "Invalid file type"
                ELSE IF ~f.decodes THEN "File is not a valid image"
                ELSE "none"
        IN  /\ raised \in {"none", "InvalidImageError", "ExifExtractionError"}
            /\ raised = "InvalidImageError" <=> first # "none"
            /\ raised = "InvalidImageError" => message = first
            /\ raised = "ExifExtractionError" <=> (first = "none" /\ f.fails)
            /\ (raised = "none" /\ ~f.has_block) =>
                  record = EXIFData(NoneStr, NoneStr, NoneStr, NoneNum, NoneNum,
                                    NoneStr, "sha256", "50x50", f.size)

C22_Witness ==
    /\ call = "extract_exif"
    /\ image_file.exists
    /\ image_file.size = MAX_FILE_SIZE
    /\ image_file.suffix = ".txt"
    /\ ~image_file.decodes
    /\ raised = "InvalidImageError"
    /\ message = "Invalid file type"

\* C23: for every raw mapping _build_vision_analysis returns a scene
\* analysis without raising: a cleanliness or location value that is not one
\* of the enum values, whatever the case (a missing, null or non-string
\* value included) becomes average / unclear; a confidence that cannot be
\* read as a number becomes 50; the confidence is within 0..100, the number
\* read clamped; a list field that is missing becomes the empty list, and no
\* list field of the result is null.
C23_SceneNormalized ==
    call = "_build_vision_analysis" =>
        LET d == llava_result.d
            Enum(v, values, default) ==
                IF v.t = "str" /\ PyLower(v.s) \in values
                THEN PyLower(v.s) ELSE default
            Number(v) ==
                CASE v.t \in {"int", "bool", "float"} -> Clamp(v.n)
                  [] v.t = "inf" -> 100
                  [] v.t = "str" /\ v.s \in NumericStrings ->
                        Clamp(PyIntOfStr(v.s))
                  [] OTHER -> 50
            Items(v) == IF v.t = "list" THEN ListItems(v) ELSE <<>>
        IN  /\ raised = "none"
            /\ vision_analysis.cleanliness_level
                   = Enum(d["cleanliness_level"], CleanlinessLevelEnum, "average")
            /\ vision_analysis.indoor_outdoor
                   = Enum(d["indoor_outdoor"], LocationTypeEnum, "unclear")
            /\ vision_analysis.confidence = Number(d["confidence"])
            /\ vision_analysis.confidence \in 0..100
            /\ vision_analysis.detected_objects = Items(d["detected_objects"])
            /\ vision_analysis.damage_detected = Items(d["damage_detected"])
            /\ vision_analysis.safety_hazards = Items(d["safety_hazards"])

\* C24: for every mapping _build_multimodal_verdict sets
\* image_supports_claim to true exactly when the raw value is the boolean
\* true or a string equal, ignoring case, to "true", "yes" or "1", and to
\* false otherwise, a missing value included; it sets consistency_score and
\* evidence_strength to the raw number clamped to 0..100 (150 gives 100,
\* -10 gives 0), or to 50 when the raw value is missing or cannot be parsed
\* as a number.
C24_VerdictNormalized ==
    call = "_build_multimodal_verdict" =>
        LET d == llm_result.d
            supports == d["image_supports_claim"]
            Number(v) ==
                CASE v.t \in {"int", "bool", "float"} -> Clamp(v.n)
                  [] v.t = "inf" -> 100
                  [] v.t = "str" /\ v.s \in NumericStrings ->
                        Clamp(PyIntOfStr(v.s))
                  [] OTHER -> 50
        IN  /\ raised = "none"
            /\ multimodal_verdict.image_supports_claim
                   = (\/ supports = JBool(TRUE)
                      \/ /\ supports.t = "str"
                         /\ PyLower(supports.s) \in {"true", "yes", "1"})
            /\ multimodal_verdict.consistency_score
                   = Number(d["consistency_score"])
            /\ multimodal_verdict.evidence_strength
                   = Number(d["evidence_strength"])

\* tamper_analysis carries the indicator of the future-timestamp rule
FutureTimestampFired ==
    \E i \in 1..Len(tamper_analysis.indicators) :
        tamper_analysis.indicators[i] = "Image timestamp is in the future"

\* tamper_analysis carries the indicator of the editing-software rule
EditingSoftwareFired ==
    \E i \in 1..Len(tamper_analysis.indicators), editor \in EDITING_SOFTWARE :
        PyIn(editor, PyLower(image.exif.software))
        /\ tamper_analysis.indicators[i]
              = "Editing software detected: " \o image.exif.software

\* the contributions of the rules that fired, in hundredths, unclamped
RuleSum ==
    (IF \E i \in 1..Len(tamper_analysis.indicators) :
           tamper_analysis.indicators[i] = "Missing or stripped EXIF metadata"
     THEN 30 ELSE 0)
    + (IF EditingSoftwareFired THEN 40 ELSE 0)
    + (IF FutureTimestampFired THEN 50 ELSE 0)

\* C30: in detect_tampering the missing-metadata rule (+0.3) and the
\* future-timestamp rule (+0.5) never both fire for the same record, so
\* whenever the analysis completes the unclamped sum of the contributions
\* is at most 0.9 and is the returned probability (the clamp to 1.0 changes
\* nothing), and the returned probability is one of 0, 0.3, 0.4, 0.5, 0.7,
\* 0.9.
C30_RulesExcludeEachOther ==
    (call \in {"detect_tampering", "validate_evidence"} /\ raised = "none") =>
        /\ ~(FutureTimestampFired
             /\ \E i \in 1..Len(tamper_analysis.indicators) :
                   tamper_analysis.indicators[i]
                       = "Missing or stripped EXIF metadata")
        /\ RuleSum <= 90
        /\ tamper_analysis.indicators
               # <<"Could not complete tampering analysis">>
              => tamper_analysis.tamper_probability = RuleSum
        /\ tamper_analysis.tamper_probability \in {0, 30, 40, 50, 70, 90}

C30_Witness ==
    /\ call = "detect_tampering"
    /\ raised = "none"
    /\ FutureTimestampFired
    /\ EditingSoftwareFired
    /\ tamper_analysis.tamper_probability = 90

\* C29: in every result of validate_evidence the authenticity score carries
\* the tamper penalty (the scorer's value minus 30, floored at 0) if and
\* only if the tamper conclusion of the same result is "High probability of
\* image manipulation"; otherwise it is calculate_authenticity_score of
\* the extracted record.
C29_PenaltyIffHighConclusion ==
    (call = "validate_evidence" /\ raised = "none") =>
        LET base == calculate_authenticity_score(record)
        IN  validation_score =
                IF tamper_analysis.conclusion
                       = "High probability of image manipulation"
                THEN (IF base - 30 > 0 THEN base - 30 ELSE 0)
                ELSE base

\* tamper_analysis carries the indicator of the missing-metadata rule
MissingMetadataFired ==
    \E i \in 1..Len(tamper_analysis.indicators) :
        tamper_analysis.indicators[i] = "Missing or stripped EXIF metadata"

\* C28: for every Metadata Record, whenever detect_tampering fires the
\* missing-or-stripped-metadata rule, calculate_authenticity_score of the
\* same record is 0: a record that earns the +40 bonus for any metadata
\* present is never flagged as having missing or stripped metadata.
C28_ScorerAndDetectorAgree ==
    (call = "detect_tampering" /\ raised = "none" /\ image.exc = "none"
        /\ MissingMetadataFired)
        => calculate_authenticity_score(image.exif) = 0

\* C27: the scene description embedded in the reasoning prompt is the
\* normalized Scene Analysis (enum fields within their valid values,
\* confidence within 0..100), the metadata embedded is exactly the
\* non-null fields of the Metadata Record, and the call carries no image.
C27_PromptEmbedsNormalizedScene ==
    Started("ReasonMultimodal") =>
        /\ prompt.llava_json.kind = "obj"
        /\ prompt.llava_json.d["cleanliness_level"]
              = JStr(vision_analysis.cleanliness_level)
        /\ prompt.llava_json.d["indoor_outdoor"]
              = JStr(vision_analysis.indoor_outdoor)
        /\ prompt.llava_json.d["confidence"].t \in {"int", "float"}
        /\ prompt.llava_json.d["confidence"].n = vision_analysis.confidence
        /\ DOMAIN prompt.exif_json = NonNullFields(exif_data)
        /\ \A k \in DOMAIN prompt.exif_json :
              prompt.exif_json[k] = exif_data[k]
        /\ prompt.images = 0

\* C26: for every response text, the JSON repair of both model paths
\* (OllamaLLMService._parse_json_response, VisionService._parse_json_response)
\* returns a mapping, never a list, string, number, boolean or null,
\* including when the text is valid JSON that is not an object.
C26_RepairReturnsMapping ==
    call \in {"_parse_json_response", "vision._parse_json_response"}
        => parsed.kind = "obj"

\* call i holds a temporary file: from its creation to its deletion
Holds(i) ==
    /\ invocation[i].temp_file # 0
    /\ invocation[i].temp_file \in fs
    /\ owner[invocation[i].temp_file] = i

\* C25: in every interleaving of two concurrent calls of analyze_evidence
\* on the same services, each call works on a temporary file of its own:
\* two calls never hold a file under the same name, every file a call
\* writes, reads or deletes is one it created itself and that is still
\* there, and no call reaches its file once its Cleanup has run.
C25_OwnTemporaryFile ==
    /\ \A a \in accesses : a.owner = a.by /\ ~a.after_cleanup
    /\ \A i \in Invocations, j \in Invocations :
          (i # j /\ Holds(i) /\ Holds(j))
              => invocation[i].temp_file # invocation[j].temp_file
    /\ \A i \in Invocations :
          /\ invocation[i].temp_path # 0 => invocation[i].temp_path
                                               = invocation[i].temp_file
          /\ (invocation[i].cleaned /\ invocation[i].temp_path # 0)
                 => ~Holds(i)

C25_Witness ==
    /\ invocation[1].pc = "done"
    /\ invocation[1].temp_path # 0
    /\ invocation[2].pc = "reason"
    /\ invocation[2].temp_path = invocation[1].temp_path
    /\ \E a \in accesses : a.by = 1
    /\ \E a \in accesses : a.by = 2

====
